---------------------------- MODULE Spec2Model ----------------------------
(***************************************************************************)
(* The audio-to-HLS transcoding pipeline of mwonya_backend:                *)
(*   creator/tasks.py               process_track_to_hls and its helpers,  *)
(*                                  cleanup_old_failed_files               *)
(*   creator/utils/file_handlers.py FileManager                            *)
(*   creator/signals.py             delete_track_files                     *)
(*   authentication/views.py        VerifyEmailAPIView                     *)
(*   mwonya_core/settings.py        the time limits of the worker          *)
(*                                                                         *)
(* One track (asset) is followed through the attempts of its job, with the *)
(* retention sweep running beside it over the whole quarantine store.  The *)
(* paths the job writes to are recorded as the path functions of           *)
(* file_handlers.py compute them.  The external tools (ffprobe,            *)
(* ffmpeg) are the environment: every call draws its exit status and the   *)
(* files it leaves behind.  The deployment settings the task reads         *)
(* (HLS_QUALITIES, USE_S3_STORAGE) are not set in mwonya_core/settings.py; *)
(* the quality table is an input of the model and storage is the local     *)
(* file system (storage.py:83 defaults USE_S3_STORAGE to False).           *)
(***************************************************************************)
EXTENDS Integers, Sequences, FiniteSets, Bags, TLC

(***************************************************************************)
(* Program constants and the bounds of the model.                          *)
(***************************************************************************)
max_retries == 3

RetentionDays == 30

\* ffprobe reports the duration as a decimal string; the model counts it in
\* half seconds, 0 .. MaxHalfSeconds.
MaxHalfSeconds == 2

\* How many days the clock may advance during a behaviour.
MaxTicks == 1

\* The longest quality table of the runs that interleave the job with the
\* retention sweep or with the clock of the worker.
MaxSweepQualities == 1

\* The day the behaviour starts: late enough for a quarantine entry of an
\* earlier job to be older than the retention window.
InitialTime == RetentionDays + 1

\* The quality names create_hls_directory_structure makes a directory for.
QualityNames == {"high", "med", "low"}

\* The static table of create_master_playlist (a dict: insertion order).
qualities_config == << [quality |-> "high", bandwidth |-> 320000],
                       [quality |-> "med",  bandwidth |-> 192000],
                       [quality |-> "low",  bandwidth |-> 128000] >>

Range(s) == {s[i] : i \in DOMAIN s}

\* settings.HLS_QUALITIES is a dict keyed by quality name: its keys, in
\* insertion order, without repetition.
AllQualityTables ==
    {t \in UNION {[1..n -> QualityNames] : n \in 0..Cardinality(QualityNames)} :
        Cardinality(Range(t)) = Len(t)}

\* The tables the pipeline is run with: every subset of the names in
\* the order high, med, low, and the full table in the opposite order.
InOrder(t) ==
    \A i, j \in DOMAIN t :
        i < j => \E k, l \in DOMAIN qualities_config :
                    /\ k < l
                    /\ qualities_config[k].quality = t[i]
                    /\ qualities_config[l].quality = t[j]

QualityTables ==
    {t \in AllQualityTables : InOrder(t)} \cup {<<"low", "med", "high">>}

(***************************************************************************)
(* Exceptions, as the text the handler records (str(e)): the message kind  *)
(* and the values formatted into it.                                       *)
(***************************************************************************)
NoReason == [kind |-> "", detail |-> <<>>]

RawNotFound == [kind |-> "Raw audio file not found", detail |-> <<>>]

EncodeFailed(quality_name) ==
    [kind |-> "Failed to process quality", detail |-> <<quality_name>>]

\* subprocess.run(..., check=True) of lines 68-72: CalledProcessError for a
\* non-zero exit status, OSError when ffmpeg cannot be started.
CopyFailed == [kind |-> "Command returned non-zero exit status", detail |-> <<>>]

ToolNotStarted == [kind |-> "No such file or directory: 'ffmpeg'", detail |-> <<>>]

VerifyFailed(errors) == [kind |-> "HLS verification failed", detail |-> errors]

\* The reason in the failure log an earlier job of the track left behind.
EarlierFailure == [kind |-> "earlier failure", detail |-> <<>>]

VARIABLES
    qualities,  \* settings.HLS_QUALITIES: the configured quality names, in order
    track,      \* the track's row in the database
    rawFile,    \* TRUE when the raw upload is on disk
    hls,        \* MEDIA_ROOT/hls/{track_id}
    failed,     \* MEDIA_ROOT/failed and MEDIA_ROOT/failed/{track_id}
    job,        \* the task: position, request.retries, locals of the attempt
    sweep,      \* cleanup_old_failed_files: position and cutoff_date
    now,        \* timezone.now(), in days
    store,      \* MEDIA_ROOT/failed: the items beside failed/{track_id}
    writes,     \* the paths under MEDIA_ROOT the job has written to
    verification, \* the dict the last call of verify_hls_structure returned
    located,    \* the paths the path functions have returned, call by call
    timer,      \* the worker's clock of the running execution of the task
    purge,      \* cleanup_all_files: the calls made and how the last one ended
    auth        \* email verification: the cache entry, the user, the requests

vars == <<qualities, track, rawFile, hls, failed, job, sweep, now,
          store, writes, verification, located, timer, purge, auth>>

(***************************************************************************)
(* file_handlers.py: where the files of a track are.  A path is the        *)
(* sequence of its components below MEDIA_ROOT.                            *)
(***************************************************************************)
\* The ids of tracks (UUIDs) and of artists, the values uuid.uuid4() may
\* return, and the names files are uploaded under, split at the dots.
TrackIds == {"t1", "t2"}

ArtistIds == {"a1", "a2"}

Uuids == {"u1", "u2"}

Filenames ==
    {<<"song", "mp3">>, <<"demo", "mp3">>, <<"song", "v2", "flac">>, <<"song">>}

\* instance.id of an instance that has none.
NoId == ""

\* filename.split('.')[-1]
Extension(filename) == filename[Len(filename)]

\* os.path.basename
basename(path) == path[Len(path)]

\* The raw path keyed by a fresh uuid in every call.
generate_track_path_AlwaysUuid(instance, filename, uuid4) ==
    <<"raw", instance.artist, uuid4, "original." \o Extension(filename)>>

\* raw/{artist_id}/{track_id}/original.{ext}; uuid4 is what uuid.uuid4()
\* returns in this call.
generate_track_path(instance, filename, uuid4) ==
    LET ext       == Extension(filename)
        track_id  == IF instance.id # NoId THEN instance.id ELSE uuid4
        artist_id == instance.artist
    IN  <<"raw", artist_id, track_id, "original." \o ext>>

\* hls/{track_id}/
generate_hls_path(track_id) == <<"hls", track_id>>

get_hls_directory(track_id) == <<"hls", track_id>>

get_hls_manifest_path(track_id) ==
    get_hls_directory(track_id) \o <<"playlist.m3u8">>

get_hls_metadata_path(track_id) ==
    get_hls_directory(track_id) \o <<"metadata.json">>

\* The dict create_hls_directory_structure returns.
directories(track_id) ==
    [k \in {"base"} \cup QualityNames |->
        IF k = "base" THEN get_hls_directory(track_id)
                      ELSE get_hls_directory(track_id) \o <<k>>]

\* tasks.py, line 67.
original_copy_path(track_id) ==
    directories(track_id)["base"] \o <<track_id \o ".m4a">>

\* move_to_failed, lines 173, 179 and 192.
failed_dir(track_id) == <<"failed", track_id>>

failed_file_path(track_id, original_path) ==
    failed_dir(track_id) \o <<basename(original_path)>>

\* One failure log for all tracks.
log_path_Shared(track_id) == <<"failed", "failure_log.json">>

log_path(track_id) == failed_dir(track_id) \o <<"failure_log.json">>

\* The files an encoder run leaves in output_dir (lines 182-183).
EncoderPaths(output_dir, run) ==
    (IF run.playlist THEN {output_dir \o <<"playlist.m3u8">>} ELSE {})
        \cup (IF run.segments THEN {output_dir \o <<"segment_000.ts">>} ELSE {})

(***************************************************************************)
(* The environment: one run of an external tool.                           *)
(*   status    how subprocess.run ended: exit status 0, a non-zero exit    *)
(*             status (CalledProcessError under check=True), or the tool   *)
(*             could not be started (OSError)                              *)
(*   playlist  the run left playlist.m3u8 in the output directory          *)
(*   segments  the run left at least one segment_NNN.ts there              *)
(* A run that could not be started writes nothing.                         *)
(***************************************************************************)
ToolStatus == {"exit0", "nonzero", "oserror"}

FfmpegRuns ==
    {r \in [status : ToolStatus, playlist : BOOLEAN, segments : BOOLEAN] :
        r.status = "oserror" => ~r.playlist /\ ~r.segments}

\* ffprobe: how it ended and what it printed.  stdout is "json" (a JSON
\* object whose format has a duration), "noduration" (a JSON object
\* without one) or "garbage" (not JSON).
FfprobeRuns ==
    [status : ToolStatus, stdout : {"json", "noduration", "garbage"},
     halfSeconds : 0..MaxHalfSeconds]

(***************************************************************************)
(* tasks.py: the helpers of the task.                                      *)
(***************************************************************************)
\* The dict extract_audio_metadata returns, reduced to its duration entry:
\* << >> is the empty dict, <<h>> a dict whose 'duration' is h half seconds.
extract_audio_metadata(run) ==
    IF run.status # "exit0" \/ run.stdout = "garbage"
    THEN << >>
    ELSE IF run.stdout = "noduration" THEN <<0>> ELSE <<run.halfSeconds>>

\* int(float(metadata.get('duration', 0)))
DurationSeconds(metadata) ==
    IF metadata = << >> THEN 0 ELSE metadata[1] \div 2

\* The return value of process_quality_level.
process_quality_level(run) == run.status = "exit0"

\* What the encoder's run leaves in the quality's directory of h.
EncoderOutput(h, quality_name, run) ==
    [h EXCEPT !.playlist[quality_name] = @ \/ run.playlist,
              !.segments[quality_name] = @ \/ run.segments]

\* '#EXTM3U' and '#EXT-X-VERSION:3', lines 234-235.
HeaderLines == 2

\* The master playlist in the order of settings.HLS_QUALITIES instead of
\* the static table's.
create_master_playlist_SettingsOrder(h) ==
    LET row(q)  == CHOOSE c \in Range(qualities_config) : c.quality = q
        entries == SelectSeq([i \in DOMAIN qualities |-> row(qualities[i])],
                             LAMBDA c : h.playlist[c.quality])
    IN  [h EXCEPT !.master = TRUE, !.entries = entries,
                  !.master_lines = HeaderLines + 2 * Len(entries)]

\* The master playlist without the os.path.exists test of line 241.
create_master_playlist_NoExistsTest(h) ==
    [h EXCEPT !.master = TRUE, !.entries = qualities_config,
              !.master_lines = HeaderLines + 2 * Len(qualities_config)]

\* The master playlist: the two header lines, then two lines per row of
\* the static table whose sub-playlist exists, in the table's order.
create_master_playlist(h) ==
    LET entries == SelectSeq(qualities_config, LAMBDA c : h.playlist[c.quality])
    IN  [h EXCEPT !.master = TRUE, !.entries = entries,
                  !.master_lines = HeaderLines + 2 * Len(entries)]

(***************************************************************************)
(* file_handlers.py: FileManager.                                          *)
(***************************************************************************)
\* get_raw_file_path() is None without a file reference; the job needs the
\* path and the file behind it.
RawFileFound == track.audio_file /\ rawFile

create_hls_directory_structure(h) ==
    [h EXCEPT !.dirs = TRUE, !.quality_dirs = [q \in QualityNames |-> TRUE]]

save_metadata(h) == [h EXCEPT !.metadata = TRUE]

\* The result of the loop over ['high', 'med', 'low'] for one quality.
QualityCheck(h, quality) ==
    IF ~h.quality_dirs[quality]
    THEN [errors |-> << >>, warnings |-> <<quality \o " quality directory not found">>]
    ELSE IF ~h.playlist[quality]
    THEN [errors |-> << >>, warnings |-> <<quality \o " playlist.m3u8 not found">>]
    ELSE IF ~h.segments[quality]
    THEN [errors |-> <<quality \o " has no segments">>, warnings |-> << >>]
    ELSE [errors |-> << >>, warnings |-> << >>]

verify_hls_structure(h) ==
    LET main == IF ~h.master THEN <<"Main playlist.m3u8 not found">> ELSE << >>
        hi   == QualityCheck(h, "high")
        me   == QualityCheck(h, "med")
        lo   == QualityCheck(h, "low")
        meta == IF ~h.metadata THEN <<"metadata.json not found">> ELSE << >>
        errs == main \o hi.errors \o me.errors \o lo.errors
    IN  [valid    |-> errs = << >>,
         errors   |-> errs,
         warnings |-> hi.warnings \o me.warnings \o lo.warnings \o meta]

(***************************************************************************)
(* The state after construction: an uploaded track in status 'pending',    *)
(* nothing of it under hls/, its job queued with request.retries = 0.  The *)
(* quarantine store may hold an entry an earlier job of the track left.    *)
(***************************************************************************)
NoEntry(root) ==
    [root |-> root, dir |-> FALSE, rawCopy |-> FALSE, log |-> FALSE,
     reason |-> NoReason, timestamp |-> 0]

\* Entries of an earlier job: older than the window, exactly at the cutoff,
\* written today.
EarlierEntries ==
    {[root |-> TRUE, dir |-> TRUE, rawCopy |-> TRUE, log |-> TRUE,
      reason |-> EarlierFailure, timestamp |-> t] :
        t \in {0, InitialTime - RetentionDays, InitialTime}}

IdleJob ==
    [pc |-> "queued", retries |-> 0, executions |-> 0, results |-> << >>,
     metadata |-> << >>, reason |-> NoReason, outcome |-> "", countdown |-> 0,
     composed |-> FALSE, raised |-> NoReason]

\* No sweep has ended yet.
NoCutoff == -1

\* expired: the items whose failure log was older than the cutoff when the
\* run listed the store.
IdleSweep ==
    [pc |-> "idle", cutoff |-> 0, todo |-> << >>, last |-> NoCutoff,
     expired |-> {}]

\* The items of MEDIA_ROOT/failed beside the directory of this track.
\*   kind       "absent", a plain "file", or a "dir"
\*   log        failure_log.json in the directory: "none", "ok", or how
\*              reading it fails: open raises ("unreadable"), json.load
\*              raises ("notjson"), it has no 'timestamp' ("nokey"),
\*              fromisoformat raises ("badstamp"), or the timestamp has no
\*              UTC offset and the comparison of line 278 raises ("naive")
\*   timestamp  the day in the log
OtherItems == {"x1", "x2"}

BrokenLogs == {"unreadable", "notjson", "nokey", "badstamp", "naive"}

Absent == [kind |-> "absent", log |-> "none", timestamp |-> 0]

StoreEntries ==
    {Absent, [kind |-> "file", log |-> "none", timestamp |-> 0],
             [kind |-> "dir", log |-> "none", timestamp |-> 0]}
        \cup {[kind |-> "dir", log |-> l, timestamp |-> 0] : l \in BrokenLogs}
        \cup {[kind |-> "dir", log |-> "ok", timestamp |-> t] :
                  t \in {0, InitialTime - RetentionDays, InitialTime}}

EmptyStore == [i \in OtherItems |-> Absent]

\* No call of verify_hls_structure yet.
NoVerification ==
    [called |-> FALSE,
     result |-> [valid |-> TRUE, errors |-> << >>, warnings |-> << >>]]

\* The clock of an execution that has just started: the seconds it has
\* run, and whether the soft time limit has been signalled to it.
NoTimer == [elapsed |-> 0, soft |-> FALSE]

\* cleanup_all_files has not been called.
\*   cleared  FieldFile.delete has set the file reference of the instance
\*            in memory to None (save=False: the row keeps it)
\*   removed  what the calls so far have removed: "hls", "raw"
\*   idle     the last call found nothing to remove
NoPurge ==
    [calls |-> 0, raised |-> FALSE, cleared |-> FALSE, removed |-> {},
     idle |-> FALSE]

\* No verification code has been issued and no request is under way.
\*   cache        the entry email_verification_{pk}: << >> when there is
\*                none, else <<[code, attempts]>>
\*   is_verified  the field of the user
\*   requests     the verify requests between their cache.get and the
\*                write that follows it: a bag of their local variables
\*   started      the verify requests made so far
\*   compared     the wrong codes compared with the cached code so far
\*   exhausted    an entry with attempts = 5 has been written
NoAuth ==
    [cache |-> << >>, is_verified |-> FALSE, requests |-> EmptyBag,
     started |-> 0, compared |-> 0, exhausted |-> FALSE]

\* Nothing of the track under hls/.
NoOutput ==
    [dirs |-> FALSE, quality_dirs |-> [q \in QualityNames |-> FALSE],
     playlist |-> [q \in QualityNames |-> FALSE],
     segments |-> [q \in QualityNames |-> FALSE],
     master |-> FALSE, master_lines |-> 0, entries |-> << >>,
     original |-> FALSE, metadata |-> FALSE]

\* The name the upload was stored under: upload_to=generate_track_path.
UploadedName(id) ==
    generate_track_path([id |-> id, artist |-> "a1"], <<"song", "mp3">>, "u1")

InitFor(ids, tables, entries, stores) ==
    /\ qualities \in tables
    /\ \E id \in ids, exists \in BOOLEAN, ref \in BOOLEAN :
          track = [id |-> id, exists |-> exists, audio_file |-> ref,
                   audio_name |-> IF ref THEN UploadedName(id) ELSE << >>,
                   status |-> "pending",
                   review_notes |-> NoReason, hls_manifest |-> "",
                   hls_processed |-> FALSE, duration |-> << >>]
    /\ rawFile \in BOOLEAN
    /\ hls = NoOutput
    /\ failed \in entries
    /\ job = IdleJob
    /\ sweep = IdleSweep
    /\ now = InitialTime
    /\ store \in stores
    /\ writes = {}
    /\ verification = NoVerification
    /\ located = {}
    /\ timer = NoTimer
    /\ purge = NoPurge
    /\ auth = NoAuth

InitWith(tables, entries) == InitFor({"t1"}, tables, entries, {EmptyStore})

\* The pipeline on a store without quarantine.
Init == InitWith(QualityTables, {NoEntry(FALSE)})

\* The pipeline for either of two tracks.
PairInit == InitFor(TrackIds, QualityTables, {NoEntry(FALSE)}, {EmptyStore})

\* The pipeline beside the retention sweep, on any quarantine store.
SweepInit ==
    InitWith({t \in QualityTables : Len(t) <= MaxSweepQualities},
             {NoEntry(FALSE), NoEntry(TRUE)} \cup EarlierEntries)

(***************************************************************************)
(* process_track_to_hls, one action per step of the task.  The positions:  *)
(*   queued            waiting for the worker (first run or a retry)       *)
(*   probing           line 45                                             *)
(*   encoding          lines 50-61, one encoder call per step              *)
(*   composing         line 64                                             *)
(*   copying           lines 67-72                                         *)
(*   saving            lines 75-89                                         *)
(*   verifying         lines 92-94                                         *)
(*   failing           the handler of line 110 is entered                  *)
(*   quarantine_copy, quarantine_log   inside move_to_failed               *)
(*   marking           lines 119-121                                       *)
(*   retrying          line 126                                            *)
(*   done              the task returned, or failed for good               *)
(***************************************************************************)
Raise(reason) == [job EXCEPT !.pc = "failing", !.reason = reason]

\* The attempt with lines 36-39 and 41-42 exchanged: the output directories
\* are made before the raw file is looked for.
StartAttempt_DirectoriesFirst ==
    /\ job.pc = "queued"
    /\ LET j == [job EXCEPT !.executions = @ + 1, !.results = << >>,
                            !.metadata = << >>, !.reason = NoReason,
                            !.composed = FALSE, !.raised = NoReason]
       IN  IF ~track.exists
           THEN /\ job' = [j EXCEPT !.pc = "done", !.outcome = "error"]
                /\ UNCHANGED <<track, hls, writes>>
           ELSE /\ track' = [track EXCEPT !.status = "processing"]
                /\ hls' = create_hls_directory_structure(hls)
                /\ writes' = writes \cup Range(directories(track.id))
                /\ job' = IF ~RawFileFound
                          THEN [j EXCEPT !.pc = "failing", !.reason = RawNotFound]
                          ELSE [j EXCEPT !.pc = "probing"]
    /\ verification' = NoVerification
    /\ timer' = NoTimer
    /\ UNCHANGED <<qualities, rawFile, failed, sweep, now, store, located,
                   purge, auth>>

\* The attempt without the clause of lines 106-108: a missing track is
\* handled like every other exception.
StartAttempt_MissingTrackRaises ==
    /\ job.pc = "queued"
    /\ LET j == [job EXCEPT !.executions = @ + 1, !.results = << >>,
                            !.metadata = << >>, !.reason = NoReason,
                            !.composed = FALSE, !.raised = NoReason]
       IN  IF ~track.exists
           THEN /\ job' = [j EXCEPT !.pc = "failing",
                                    !.reason = [kind |-> "Track matching query does not exist.",
                                                detail |-> << >>]]
                /\ UNCHANGED <<track, hls, writes>>
           ELSE /\ track' = [track EXCEPT !.status = "processing"]
                /\ IF ~RawFileFound
                   THEN /\ job' = [j EXCEPT !.pc = "failing", !.reason = RawNotFound]
                        /\ UNCHANGED <<hls, writes>>
                   ELSE /\ job' = [j EXCEPT !.pc = "probing"]
                        /\ hls' = create_hls_directory_structure(hls)
                        /\ writes' = writes \cup Range(directories(track.id))
    /\ verification' = NoVerification
    /\ timer' = NoTimer
    /\ UNCHANGED <<qualities, rawFile, failed, sweep, now, store, located,
                   purge, auth>>

\* Lines 25-42 and 106-108: fetch the track, mark it 'processing', look for
\* the raw file, make the output directories.
StartAttempt ==
    /\ job.pc = "queued"
    /\ LET j == [job EXCEPT !.executions = @ + 1, !.results = << >>,
                            !.metadata = << >>, !.reason = NoReason,
                            !.composed = FALSE, !.raised = NoReason]
       IN  IF ~track.exists
           THEN /\ job' = [j EXCEPT !.pc = "done", !.outcome = "error"]
                /\ UNCHANGED <<track, hls, writes>>
           ELSE /\ track' = [track EXCEPT !.status = "processing"]
                /\ IF ~RawFileFound
                   THEN /\ job' = [j EXCEPT !.pc = "failing", !.reason = RawNotFound]
                        /\ UNCHANGED <<hls, writes>>
                   ELSE /\ job' = [j EXCEPT !.pc = "probing"]
                        /\ hls' = create_hls_directory_structure(hls)
                        /\ writes' = writes \cup Range(directories(track.id))
    /\ verification' = NoVerification
    /\ timer' = NoTimer
    /\ UNCHANGED <<qualities, rawFile, failed, sweep, now, store, located,
                   purge, auth>>

\* A probe whose failure is raised instead of being caught at line 163.
Probe_Raises ==
    /\ job.pc = "probing"
    /\ \E run \in FfprobeRuns :
          job' = IF extract_audio_metadata(run) = << >>
                 THEN Raise([kind |-> "ffprobe failed", detail |-> << >>])
                 ELSE [job EXCEPT !.pc = "encoding",
                                  !.metadata = extract_audio_metadata(run)]
    /\ UNCHANGED <<qualities, track, rawFile, hls, failed, sweep, now,
                   store, writes, verification, located,
                   timer, purge, auth>>

\* Line 45.
Probe ==
    /\ job.pc = "probing"
    /\ \E run \in FfprobeRuns :
          job' = [job EXCEPT !.pc = "encoding",
                             !.metadata = extract_audio_metadata(run)]
    /\ UNCHANGED <<qualities, track, rawFile, hls, failed, sweep, now,
                   store, writes, verification, located,
                   timer, purge, auth>>

\* The loop without the raise of line 61: it goes on after a failure.
EncodeNext_NoRaise(run) ==
    LET quality_name == qualities[Len(job.results) + 1]
    IN  /\ hls' = EncoderOutput(hls, quality_name, run)
        /\ writes' = writes \cup
                        EncoderPaths(directories(track.id)[quality_name], run)
        /\ job' = [job EXCEPT !.results = Append(@, process_quality_level(run))]

\* An encoder whose except clauses of lines 210-215 do not catch the error
\* of a tool that cannot be started.
EncodeNext_ToolErrorEscapes(run) ==
    LET quality_name == qualities[Len(job.results) + 1]
        success      == process_quality_level(run)
    IN  /\ hls' = EncoderOutput(hls, quality_name, run)
        /\ writes' = writes \cup
                        EncoderPaths(directories(track.id)[quality_name], run)
        /\ job' = IF run.status = "oserror"
                  THEN Raise(ToolNotStarted)
                  ELSE IF ~success
                  THEN [Raise(EncodeFailed(quality_name))
                            EXCEPT !.results = Append(@, success)]
                  ELSE [job EXCEPT !.results = Append(@, success)]

\* Lines 50-61: the next quality of the table is encoded; a failure raises.
EncodeNext(run) ==
    LET quality_name == qualities[Len(job.results) + 1]
        success      == process_quality_level(run)
    IN  /\ hls' = EncoderOutput(hls, quality_name, run)
        /\ writes' = writes \cup
                        EncoderPaths(directories(track.id)[quality_name], run)
        /\ job' = IF ~success
                  THEN [Raise(EncodeFailed(quality_name))
                            EXCEPT !.results = Append(@, success)]
                  ELSE [job EXCEPT !.results = Append(@, success)]

Encode ==
    /\ job.pc = "encoding"
    /\ Len(job.results) < Len(qualities)
    /\ \E run \in FfmpegRuns : EncodeNext(run)
    /\ UNCHANGED <<qualities, track, rawFile, failed, sweep, now, store,
                   verification, located,
                   timer, purge, auth>>

\* The loop is over: every quality of the table returned success.
EncodeDone ==
    /\ job.pc = "encoding"
    /\ Len(job.results) = Len(qualities)
    /\ job' = [job EXCEPT !.pc = "composing"]
    /\ UNCHANGED <<qualities, track, rawFile, hls, failed, sweep, now,
                   store, writes, verification, located,
                   timer, purge, auth>>

\* Line 64.
Compose ==
    /\ job.pc = "composing"
    /\ hls' = create_master_playlist(hls)
    /\ writes' = writes \cup {directories(track.id)["base"] \o <<"playlist.m3u8">>}
    /\ job' = [job EXCEPT !.pc = "copying", !.composed = TRUE]
    /\ UNCHANGED <<qualities, track, rawFile, failed, sweep, now, store,
                   verification, located,
                   timer, purge, auth>>

\* Lines 67-72: ffmpeg transcodes the raw file into {track_id}.m4a,
\* check=True.
CopyOriginal ==
    /\ job.pc = "copying"
    /\ \E run \in {r \in FfmpegRuns : ~r.playlist /\ ~r.segments} :
          IF run.status = "exit0"
          THEN /\ hls' = [hls EXCEPT !.original = TRUE]
               /\ writes' = writes \cup {original_copy_path(track.id)}
               /\ job' = [job EXCEPT !.pc = "saving"]
          ELSE /\ hls' = hls
               /\ writes' = writes
               /\ job' = Raise(IF run.status = "nonzero" THEN CopyFailed
                                                        ELSE ToolNotStarted)
    /\ UNCHANGED <<qualities, track, rawFile, failed, sweep, now, store,
                   verification, located,
                   timer, purge, auth>>

\* Lines 75-89: metadata.json is written and the row is updated.
MarkApproved(t, metadata) ==
    [t EXCEPT !.hls_manifest = "hls/" \o t.id \o "/playlist.m3u8",
              !.hls_processed = TRUE,
              !.status = "approved",
              !.duration = <<DurationSeconds(metadata)>>]

SaveResult ==
    /\ job.pc = "saving"
    /\ hls' = save_metadata(hls)
    /\ writes' = writes \cup {get_hls_metadata_path(track.id)}
    /\ track' = MarkApproved(track, job.metadata)
    /\ job' = [job EXCEPT !.pc = "verifying"]
    /\ UNCHANGED <<qualities, rawFile, failed, sweep, now, store,
                   verification, located,
                   timer, purge, auth>>

\* Lines 92-104.
Verify ==
    /\ job.pc = "verifying"
    /\ LET result == verify_hls_structure(hls)
       IN  /\ verification' = [called |-> TRUE, result |-> result]
           /\ job' = IF ~result.valid
                     THEN Raise(VerifyFailed(result.errors))
                     ELSE [job EXCEPT !.pc = "done", !.outcome = "success"]
    /\ UNCHANGED <<qualities, track, rawFile, hls, failed, sweep, now, store,
                   writes, located,
                   timer, purge, auth>>

(***************************************************************************)
(* The handler of lines 110-126.  Lines 114-123 are one try block: an      *)
(* exception inside it is logged and the block is left, the retry of line  *)
(* 126 follows in every case.                                              *)
(***************************************************************************)
CleanupError == [job EXCEPT !.pc = "retrying"]

\* Lines 115-117 and move_to_failed, lines 170-174: without a file
\* reference it returns at once, else the quarantine directory is made.
MoveToFailedStart ==
    /\ job.pc = "failing"
    /\ IF ~track.audio_file
       THEN /\ job' = [job EXCEPT !.pc = "marking"]
            /\ UNCHANGED <<failed, writes>>
       ELSE /\ job' = [job EXCEPT !.pc = "quarantine_copy"]
            /\ failed' = [failed EXCEPT !.root = TRUE, !.dir = TRUE]
            /\ writes' = writes \cup {failed_dir(track.id)}
    /\ UNCHANGED <<qualities, track, rawFile, hls, sweep, now, store,
                   verification, located,
                   timer, purge, auth>>

\* move_to_failed with shutil.move in the place of shutil.copy2.
MoveToFailedCopy_Moves ==
    /\ job.pc = "quarantine_copy"
    /\ IF ~RawFileFound
       THEN /\ job' = [job EXCEPT !.pc = "quarantine_log"]
            /\ UNCHANGED <<failed, writes, rawFile>>
       ELSE IF ~failed.dir
       THEN /\ job' = CleanupError
            /\ UNCHANGED <<failed, writes, rawFile>>
       ELSE /\ job' = [job EXCEPT !.pc = "quarantine_log"]
            /\ failed' = [failed EXCEPT !.rawCopy = TRUE]
            /\ rawFile' = FALSE
            /\ writes' = writes \cup
                            {failed_file_path(track.id, track.audio_name)}
    /\ UNCHANGED <<qualities, track, hls, sweep, now, store,
                   verification, located,
                   timer, purge, auth>>

\* move_to_failed, lines 177-180: the raw file, when it exists, is copied
\* into the quarantine directory; copy2 raises when the directory is gone.
MoveToFailedCopy ==
    /\ job.pc = "quarantine_copy"
    /\ IF ~RawFileFound
       THEN /\ job' = [job EXCEPT !.pc = "quarantine_log"]
            /\ UNCHANGED <<failed, writes>>
       ELSE IF ~failed.dir
       THEN /\ job' = CleanupError
            /\ UNCHANGED <<failed, writes>>
       ELSE /\ job' = [job EXCEPT !.pc = "quarantine_log"]
            /\ failed' = [failed EXCEPT !.rawCopy = TRUE]
            /\ writes' = writes \cup
                            {failed_file_path(track.id, track.audio_name)}
    /\ UNCHANGED <<qualities, track, rawFile, hls, sweep, now, store,
                   verification, located,
                   timer, purge, auth>>

\* move_to_failed, lines 183-194: failure_log.json is written (overwritten)
\* with the reason and the current time; open raises when the directory is
\* gone.
WriteFailureLog(f, reason, timestamp) ==
    [f EXCEPT !.log = TRUE, !.reason = reason, !.timestamp = timestamp]

MoveToFailedLog ==
    /\ job.pc = "quarantine_log"
    /\ IF ~failed.dir
       THEN /\ job' = CleanupError
            /\ UNCHANGED <<failed, writes>>
       ELSE /\ job' = [job EXCEPT !.pc = "marking"]
            /\ failed' = WriteFailureLog(failed, job.reason, now)
            /\ writes' = writes \cup {log_path(track.id)}
    /\ UNCHANGED <<qualities, track, rawFile, hls, sweep, now, store,
                   verification, located,
                   timer, purge, auth>>

\* f"Processing failed: {str(e)}"
ReviewNotes(reason) == [reason EXCEPT !.kind = "Processing failed: " \o @]

\* The row put back to 'pending' instead of 'rejected'.
MarkRejected_Pending(t, reason) ==
    [t EXCEPT !.status = "pending", !.review_notes = ReviewNotes(reason)]

\* Lines 119-121.
MarkRejected(t, reason) ==
    [t EXCEPT !.status = "rejected", !.review_notes = ReviewNotes(reason)]

MarkFailed ==
    /\ job.pc = "marking"
    /\ track' = MarkRejected(track, job.reason)
    /\ job' = [job EXCEPT !.pc = "retrying"]
    /\ UNCHANGED <<qualities, rawFile, hls, failed, sweep, now,
                   store, writes, verification, located,
                   timer, purge, auth>>

\* Line 126, self.retry(exc=e, countdown=60 * (retries + 1)) of a task
\* with max_retries=3: the task is queued again with request.retries + 1,
\* unless that exceeds max_retries, and then exc is raised for good.
\* A backoff that doubles with every retry.
Countdown_Doubling(retries) == 60 * 2 ^ retries

Countdown(retries) == 60 * (retries + 1)

\* celery.exceptions.Retry, the signal self.retry raises while retries
\* remain; with none left it raises exc, the exception of the attempt.
RetrySignal == [kind |-> "Retry", detail |-> << >>]

\* The bound of the retries off by one.
RetryTask_OffByOne(j) ==
    IF j.retries > max_retries
    THEN [j EXCEPT !.pc = "done", !.outcome = "failure", !.raised = j.reason]
    ELSE [j EXCEPT !.pc = "queued", !.retries = @ + 1,
                   !.countdown = Countdown(j.retries), !.raised = RetrySignal]

RetryTask(j) ==
    IF j.retries + 1 > max_retries
    THEN [j EXCEPT !.pc = "done", !.outcome = "failure", !.raised = j.reason]
    ELSE [j EXCEPT !.pc = "queued", !.retries = @ + 1,
                   !.countdown = Countdown(j.retries), !.raised = RetrySignal]

Retry ==
    /\ job.pc = "retrying"
    /\ job' = RetryTask(job)
    /\ UNCHANGED <<qualities, track, rawFile, hls, failed, sweep, now,
                   store, writes, verification, located,
                   timer, purge, auth>>

(***************************************************************************)
(* cleanup_old_failed_files, lines 248-283.  The items of MEDIA_ROOT/failed *)
(* are the directory of this track (failed) and the other items (store);   *)
(* os.listdir returns them in any order.                                   *)
(***************************************************************************)
Orders(S) ==
    {t \in [1..Cardinality(S) -> S] : Range(t) = S}

\* os.listdir(failed_dir)
Listing ==
    (IF failed.dir THEN {track.id} ELSE {})
        \cup {i \in OtherItems : store[i].kind # "absent"}

\* The run is over; its cutoff is kept for the comparison of two runs.
EndSweep(sw) ==
    [IdleSweep EXCEPT !.last = IF sw.pc = "idle" THEN sw.last ELSE sw.cutoff]

\* Lines 265-278 for the directory of this track: its failure log is read
\* and the timestamp is compared with the cutoff.
Expired(f, cutoff) == f.dir /\ f.log /\ f.timestamp < cutoff

\* The same for another item: a plain file and a directory without log are
\* passed over, a log that cannot be read or compared raises inside the
\* try of line 272.
ExpiredItem(e, cutoff) ==
    e.kind = "dir" /\ e.log = "ok" /\ e.timestamp < cutoff

ItemExpired(item, cutoff) ==
    IF item = track.id THEN Expired(failed, cutoff)
                       ELSE ExpiredItem(store[item], cutoff)

\* Lines 257-264: without the quarantine store the task returns; else the
\* cutoff is computed and the store is listed.
SweepStart ==
    /\ sweep.pc = "idle"
    /\ IF ~failed.root
       THEN sweep' = EndSweep(sweep)
       ELSE \E todo \in Orders(Listing) :
               sweep' = [sweep EXCEPT
                            !.pc = "checking",
                            !.cutoff = now - RetentionDays,
                            !.todo = todo,
                            !.expired = {item \in Listing :
                                ItemExpired(item, now - RetentionDays)}]
    /\ UNCHANGED <<qualities, track, rawFile, hls, failed, job, now, store,
                   writes, verification, located,
                   timer, purge, auth>>

\* A sweep whose loop ends at the first log it cannot read.
SweepCheck_Aborts ==
    /\ sweep.pc = "checking"
    /\ sweep.todo # << >>
    /\ LET item == Head(sweep.todo)
       IN  sweep' = IF ItemExpired(item, sweep.cutoff)
                    THEN [sweep EXCEPT !.pc = "deleting"]
                    ELSE IF item # track.id /\ store[item].log \in BrokenLogs
                    THEN [sweep EXCEPT !.todo = << >>]
                    ELSE [sweep EXCEPT !.todo = Tail(@)]
    /\ UNCHANGED <<qualities, track, rawFile, hls, failed, job, now, store,
                   writes, verification, located,
                   timer, purge, auth>>

\* A sweep that compares with <= instead of <.
SweepCheck_Inclusive ==
    /\ sweep.pc = "checking"
    /\ sweep.todo # << >>
    /\ LET item == Head(sweep.todo)
       IN  sweep' = IF ItemExpired(item, sweep.cutoff + 1)
                    THEN [sweep EXCEPT !.pc = "deleting"]
                    ELSE [sweep EXCEPT !.todo = Tail(@)]
    /\ UNCHANGED <<qualities, track, rawFile, hls, failed, job, now, store,
                   writes, verification, located,
                   timer, purge, auth>>

\* One turn of the loop of line 264, up to the comparison of line 278.
SweepCheck ==
    /\ sweep.pc = "checking"
    /\ sweep.todo # << >>
    /\ LET item == Head(sweep.todo)
       IN  sweep' = IF ItemExpired(item, sweep.cutoff)
                    THEN [sweep EXCEPT !.pc = "deleting"]
                    ELSE [sweep EXCEPT !.todo = Tail(@)]
    /\ UNCHANGED <<qualities, track, rawFile, hls, failed, job, now, store,
                   writes, verification, located,
                   timer, purge, auth>>

\* A sweep that removes the failure log and leaves the directory.
SweepDelete_LogOnly ==
    /\ sweep.pc = "deleting"
    /\ LET item == Head(sweep.todo)
       IN  IF item = track.id
           THEN /\ failed' = [failed EXCEPT !.log = FALSE]
                /\ UNCHANGED store
           ELSE /\ store' = [store EXCEPT ![item].log = "none"]
                /\ UNCHANGED failed
    /\ sweep' = [sweep EXCEPT !.pc = "checking", !.todo = Tail(@)]
    /\ UNCHANGED <<qualities, track, rawFile, hls, job, now, writes,
                   verification, located, timer, purge, auth>>

\* Lines 279-283: rmtree removes the directory with all it holds; when the
\* directory is gone already it raises, which line 282 catches.
SweepDelete ==
    /\ sweep.pc = "deleting"
    /\ LET item == Head(sweep.todo)
       IN  IF item = track.id
           THEN /\ failed' = IF failed.dir THEN NoEntry(TRUE) ELSE failed
                /\ UNCHANGED store
           ELSE /\ store' = [store EXCEPT ![item] = Absent]
                /\ UNCHANGED failed
    /\ sweep' = [sweep EXCEPT !.pc = "checking", !.todo = Tail(@)]
    /\ UNCHANGED <<qualities, track, rawFile, hls, job, now, writes,
                   verification, located,
                   timer, purge, auth>>

\* The listing is used up: the task returns.
SweepEnd ==
    /\ sweep.pc = "checking"
    /\ sweep.todo = << >>
    /\ sweep' = EndSweep(sweep)
    /\ UNCHANGED <<qualities, track, rawFile, hls, failed, job, now, store,
                   writes, verification, located,
                   timer, purge, auth>>

\* A day passes.
Tick ==
    /\ now < InitialTime + MaxTicks
    /\ now' = now + 1
    /\ UNCHANGED <<qualities, track, rawFile, hls, failed, job, sweep, store,
                   writes, verification, located,
                   timer, purge, auth>>

(***************************************************************************)
(* verify_hls_structure called on an output directory in any condition.    *)
(***************************************************************************)
\* What can be found under hls/{track_id}: nothing at all, or the base
\* directory with any of the quality directories, each with or without
\* sub-playlist and segments, the master playlist missing, empty or
\* written, the metadata file there or not.
HlsStates ==
    {NoOutput} \cup
    {h \in [dirs : {TRUE}, quality_dirs : [QualityNames -> BOOLEAN],
            playlist : [QualityNames -> BOOLEAN],
            segments : [QualityNames -> BOOLEAN],
            master : BOOLEAN, master_lines : {0, HeaderLines},
            entries : {<< >>}, original : {FALSE}, metadata : BOOLEAN] :
        /\ \A q \in QualityNames :
              h.playlist[q] \/ h.segments[q] => h.quality_dirs[q]
        /\ ~h.master => h.master_lines = 0}

\* The rest of the state stands still in these runs.
Standing ==
    /\ qualities = <<"high", "med", "low">>
    /\ track = [id |-> "t1", exists |-> TRUE, audio_file |-> TRUE,
                audio_name |-> UploadedName("t1"), status |-> "pending",
                review_notes |-> NoReason, hls_manifest |-> "",
                hls_processed |-> FALSE, duration |-> << >>]
    /\ rawFile = TRUE
    /\ job = IdleJob
    /\ sweep = IdleSweep
    /\ now = InitialTime
    /\ writes = {}
    /\ timer = NoTimer
    /\ purge = NoPurge
    /\ auth = NoAuth

VerifyInit ==
    /\ Standing
    /\ hls \in HlsStates
    /\ failed = NoEntry(FALSE)
    /\ store = EmptyStore
    /\ verification = NoVerification
    /\ located = {}

VerifyCall ==
    /\ ~verification.called
    /\ verification' = [called |-> TRUE, result |-> verify_hls_structure(hls)]
    /\ UNCHANGED <<qualities, track, rawFile, hls, failed, job, sweep, now,
                   store, writes, located,
                   timer, purge, auth>>

(***************************************************************************)
(* The sweep alone, on any quarantine store.                               *)
(***************************************************************************)
StoreInit ==
    /\ Standing
    /\ hls = NoOutput
    /\ failed \in {NoEntry(FALSE), NoEntry(TRUE)} \cup EarlierEntries
    /\ store \in [OtherItems -> StoreEntries]
    /\ ~failed.root => store = EmptyStore
    /\ verification = NoVerification
    /\ located = {}

(***************************************************************************)
(* The path functions called with any arguments.                           *)
(***************************************************************************)
\* How many calls a run records.
MaxCalls == 2

\* One call: the function, its arguments, what uuid.uuid4() would return
\* during it, and the path it returned.
LocatorCalls ==
    {[by |-> "generate_track_path", id |-> i, artist |-> a,
      filename |-> f, uuid4 |-> u,
      path |-> generate_track_path([id |-> i, artist |-> a], f, u)] :
        i \in TrackIds \cup {NoId}, a \in ArtistIds, f \in Filenames, u \in Uuids}
    \cup {[by |-> "generate_hls_path", id |-> i, artist |-> "",
           filename |-> << >>, uuid4 |-> "",
           path |-> generate_hls_path(i)] : i \in TrackIds}
    \cup {[by |-> "get_hls_directory", id |-> i, artist |-> "",
           filename |-> << >>, uuid4 |-> "",
           path |-> get_hls_directory(i)] : i \in TrackIds}
    \cup {[by |-> "move_to_failed", id |-> i, artist |-> "",
           filename |-> << >>, uuid4 |-> "",
           path |-> failed_dir(i)] : i \in TrackIds}

LocatorInit ==
    /\ Standing
    /\ hls = NoOutput
    /\ failed = NoEntry(FALSE)
    /\ store = EmptyStore
    /\ verification = NoVerification
    /\ located = {}

Locate ==
    /\ Cardinality(located) < MaxCalls
    /\ \E call \in LocatorCalls : located' = located \cup {call}
    /\ UNCHANGED <<qualities, track, rawFile, hls, failed, job, sweep, now,
                   store, writes, verification,
                   timer, purge, auth>>

(***************************************************************************)
(* The time limits of the worker (mwonya_core/settings.py, lines 152-153,  *)
(* read by celery.py with the namespace CELERY).  At the soft limit the    *)
(* worker raises SoftTimeLimitExceeded inside the running task; at the     *)
(* hard limit it kills the process that runs the task, and no line of the  *)
(* task runs after that.                                                   *)
(***************************************************************************)
task_time_limit == 1800

task_soft_time_limit == 1500

\* The clock advances in steps of five minutes.
TimeUnit == 300

\* str(e) of the exception of the soft limit, and the error the worker
\* records for a task it has killed.
SoftTimeLimitExceeded == [kind |-> "SoftTimeLimitExceeded()", detail |-> << >>]

TimeLimitExceeded == [kind |-> "TimeLimitExceeded", detail |-> << >>]

Running == job.pc \notin {"queued", "done"}

Elapse ==
    /\ Running
    /\ timer.elapsed < task_time_limit
    /\ timer.elapsed >= task_soft_time_limit => timer.soft
    /\ timer' = [timer EXCEPT !.elapsed = @ + TimeUnit]
    /\ UNCHANGED <<qualities, track, rawFile, hls, failed, job, sweep, now,
                   store, writes, verification, located, purge, auth>>

\* Where SoftTimeLimitExceeded goes when it is raised at the position of
\* j.  Inside extract_audio_metadata it is caught at line 163 and the
\* empty dict is returned; inside process_quality_level it is caught at
\* line 213 and False is returned; elsewhere in the try of line 25 the
\* handler of line 110 gets it; inside the try of line 114 it is caught at
\* line 122; at line 126 it leaves the task.
SoftLimitOutcomes(j) ==
    CASE j.pc = "probing" ->
            {[j EXCEPT !.pc = "encoding", !.metadata = << >>],
             [j EXCEPT !.pc = "failing", !.reason = SoftTimeLimitExceeded]}
      [] j.pc = "encoding" /\ Len(j.results) < Len(qualities) ->
            {[j EXCEPT !.pc = "failing", !.results = Append(@, FALSE),
                       !.reason = EncodeFailed(qualities[Len(j.results) + 1])],
             [j EXCEPT !.pc = "failing", !.reason = SoftTimeLimitExceeded]}
      [] j.pc \in {"failing", "quarantine_copy", "quarantine_log", "marking"} ->
            {[j EXCEPT !.pc = "retrying"]}
      [] j.pc = "retrying" ->
            {[j EXCEPT !.pc = "done", !.outcome = "failure",
                       !.raised = SoftTimeLimitExceeded]}
      [] OTHER ->
            {[j EXCEPT !.pc = "failing", !.reason = SoftTimeLimitExceeded]}

SoftTimeLimit ==
    /\ Running
    /\ timer.elapsed >= task_soft_time_limit
    /\ ~timer.soft
    /\ timer' = [timer EXCEPT !.soft = TRUE]
    /\ \E j \in SoftLimitOutcomes(job) : job' = j
    /\ UNCHANGED <<qualities, track, rawFile, hls, failed, sweep, now,
                   store, writes, verification, located, purge, auth>>

\* The worker kills the process: the task ends where it stands.
HardTimeLimit ==
    /\ Running
    /\ timer.elapsed >= task_time_limit
    /\ job' = [job EXCEPT !.pc = "done", !.outcome = "killed",
                          !.raised = TimeLimitExceeded]
    /\ UNCHANGED <<qualities, track, rawFile, hls, failed, sweep, now,
                   store, writes, verification, located, timer, purge, auth>>

\* The pipeline under the worker's clock.
LimitInit ==
    InitWith({t \in QualityTables : Len(t) <= MaxSweepQualities},
             {NoEntry(FALSE)})

(***************************************************************************)
(* FileManager.cleanup_all_files, lines 204-212, and its caller, the       *)
(* pre_delete handler of signals.py.  The raw file is deleted through the  *)
(* storage, which passes over a file that does not exist; only an instance *)
(* whose file reference is set reaches it.                                 *)
(***************************************************************************)
\* How many calls a run makes.
MaxPurges == 2

\* What a call removes: the output directory when it exists, the raw file
\* when the instance refers to one and it exists.
PurgeRemoves(ref) ==
    (IF hls.dirs THEN {"hls"} ELSE {}) \cup (IF ref /\ rawFile THEN {"raw"} ELSE {})

\* The purge without the os.path.exists test of line 208: rmtree raises
\* when the directory is not there, and line 212 is not reached.
cleanup_all_files_NoExistsTest(ref) ==
    IF ~hls.dirs
    THEN /\ purge' = [purge EXCEPT !.calls = @ + 1, !.raised = TRUE,
                                   !.idle = FALSE]
         /\ UNCHANGED <<hls, rawFile>>
    ELSE /\ hls' = NoOutput
         /\ rawFile' = IF ref THEN FALSE ELSE rawFile
         /\ purge' = [purge EXCEPT !.calls = @ + 1, !.raised = FALSE,
                                   !.cleared = @ \/ ref,
                                   !.removed = @ \cup PurgeRemoves(ref),
                                   !.idle = PurgeRemoves(ref) = {}]

\* ref: the instance the FileManager holds has its file reference set.
cleanup_all_files(ref) ==
    /\ hls' = IF hls.dirs THEN NoOutput ELSE hls
    /\ rawFile' = IF ref THEN FALSE ELSE rawFile
    /\ purge' = [purge EXCEPT !.calls = @ + 1, !.raised = FALSE,
                              !.cleared = @ \/ ref,
                              !.removed = @ \cup PurgeRemoves(ref),
                              !.idle = PurgeRemoves(ref) = {}]

\* The reference of the instance a call is made on: an instance fetched
\* from the row, or the instance of an earlier call.
InstanceRefs ==
    {track.audio_file} \cup
        (IF purge.calls > 0 THEN {track.audio_file /\ ~purge.cleared} ELSE {})

\* A call of cleanup_all_files for the track.
Purge ==
    /\ purge.calls < MaxPurges
    /\ \E ref \in InstanceRefs : cleanup_all_files(ref)
    /\ UNCHANGED <<qualities, track, failed, job, sweep, now, store, writes,
                   verification, located, timer, auth>>

\* signals.py, lines 11-15: the track is deleted; its files are purged
\* before the row goes.
delete_track_files ==
    /\ track.exists
    /\ purge.calls < MaxPurges
    /\ \E ref \in InstanceRefs : cleanup_all_files(ref)
    /\ track' = [track EXCEPT !.exists = FALSE]
    /\ UNCHANGED <<qualities, failed, job, sweep, now, store, writes,
                   verification, located, timer, auth>>

\* A track in any condition on disk: with or without file reference and
\* raw file, any output directory, with or without quarantine record.
PurgeInit ==
    /\ qualities = <<"high", "med", "low">>
    /\ \E ref \in BOOLEAN, status \in {"pending", "approved", "rejected"} :
          track = [id |-> "t1", exists |-> TRUE, audio_file |-> ref,
                   audio_name |-> IF ref THEN UploadedName("t1") ELSE << >>,
                   status |-> status,
                   review_notes |-> NoReason, hls_manifest |-> "",
                   hls_processed |-> FALSE, duration |-> << >>]
    /\ rawFile \in BOOLEAN
    /\ hls \in HlsStates
    /\ failed \in {NoEntry(FALSE)} \cup EarlierEntries
    /\ job = IdleJob
    /\ sweep = IdleSweep
    /\ now = InitialTime
    /\ store = EmptyStore
    /\ writes = {}
    /\ verification = NoVerification
    /\ located = {}
    /\ timer = NoTimer
    /\ purge = NoPurge
    /\ auth = NoAuth

(***************************************************************************)
(* authentication/views.py: the verification of a user's email address.    *)
(* RegisterView.post has put a code into the cache with attempts = 0       *)
(* (lines 57-67); VerifyEmailAPIView.post compares submitted codes with    *)
(* it.  The cache is shared by the workers of the web server (settings.py, *)
(* line 266); cache.get and the cache.set or cache.delete that follows it  *)
(* are two operations, and requests run side by side.                      *)
(***************************************************************************)
\* The attempts after which the code is withdrawn (line 161).
MaxAttempts == 5

\* How many verify requests a run makes.
MaxRequests == 7

\* generate_token_code: six digits.
Codes == {"111111", "222222"}

CacheEntry(code, attempts) == <<[code |-> code, attempts |-> attempts]>>

\* The user is registered and not verified, the code is in the cache.
AuthInit ==
    /\ qualities = <<"high", "med", "low">>
    /\ track = [id |-> "t1", exists |-> TRUE, audio_file |-> TRUE,
                audio_name |-> UploadedName("t1"), status |-> "pending",
                review_notes |-> NoReason, hls_manifest |-> "",
                hls_processed |-> FALSE, duration |-> << >>]
    /\ rawFile = TRUE
    /\ hls = NoOutput
    /\ failed = NoEntry(FALSE)
    /\ job = IdleJob
    /\ sweep = IdleSweep
    /\ now = InitialTime
    /\ store = EmptyStore
    /\ writes = {}
    /\ verification = NoVerification
    /\ located = {}
    /\ timer = NoTimer
    /\ purge = NoPurge
    /\ \E code \in Codes :
          auth = [NoAuth EXCEPT !.cache = CacheEntry(code, 0)]

\* Lines 127-158: the user is fetched; a verified user and a user without
\* cache entry are answered at once; else the request goes on with the
\* entry it has read (late: it was made after the fifth failed attempt
\* had been recorded).
VerifyRead ==
    /\ auth.started < MaxRequests
    /\ \E code \in Codes :
          auth' = IF auth.is_verified \/ auth.cache = << >>
                  THEN [auth EXCEPT !.started = @ + 1]
                  ELSE [auth EXCEPT
                           !.started = @ + 1,
                           !.requests = @ (+) SetToBag({
                               [code |-> code, cached_data |-> auth.cache[1],
                                late |-> auth.exhausted]})]
    /\ UNCHANGED <<qualities, track, rawFile, hls, failed, job, sweep, now,
                   store, writes, verification, located, timer, purge>>

\* Lines 160-183 for the request with the locals r: with five attempts in
\* the entry it has read the entry is deleted; a code that differs is
\* counted and the entry is written back; a code that is equal verifies
\* the user and deletes the entry.
VerifyWrite(r) ==
    LET cached_data == r.cached_data
        rest        == auth.requests (-) SetToBag({r})
    IN  IF cached_data.attempts >= MaxAttempts
        THEN [auth EXCEPT !.requests = rest, !.cache = << >>]
        ELSE IF cached_data.code # r.code
        THEN [auth EXCEPT
                 !.requests = rest,
                 !.compared = @ + 1,
                 !.exhausted = @ \/ cached_data.attempts + 1 = MaxAttempts,
                 !.cache = CacheEntry(cached_data.code,
                                      cached_data.attempts + 1)]
        ELSE [auth EXCEPT !.requests = rest, !.is_verified = TRUE,
                          !.cache = << >>]

VerifyEmail ==
    /\ \E r \in BagToSet(auth.requests) : auth' = VerifyWrite(r)
    /\ UNCHANGED <<qualities, track, rawFile, hls, failed, job, sweep, now,
                   store, writes, verification, located, timer, purge>>

\* The entry times out (timeout=1800).
CacheExpires ==
    /\ auth.cache # << >>
    /\ auth' = [auth EXCEPT !.cache = << >>]
    /\ UNCHANGED <<qualities, track, rawFile, hls, failed, job, sweep, now,
                   store, writes, verification, located, timer, purge>>

(***************************************************************************)
(* The specifications.                                                     *)
(***************************************************************************)
JobStep ==
    \/ StartAttempt
    \/ Probe
    \/ Encode
    \/ EncodeDone
    \/ Compose
    \/ CopyOriginal
    \/ SaveResult
    \/ Verify
    \/ MoveToFailedStart
    \/ MoveToFailedCopy
    \/ MoveToFailedLog
    \/ MarkFailed
    \/ Retry

SweepStep == SweepStart \/ SweepCheck \/ SweepDelete \/ SweepEnd

\* The job of one track, alone.
Next == JobStep

Spec == Init /\ [][Next]_vars

\* The worker runs a queued or running task to its end.
FairSpec == Spec /\ WF_vars(JobStep)

\* The job of either of two tracks.
PairSpec == PairInit /\ [][Next]_vars

\* The job beside the periodic sweep of the quarantine store.
SweepNext == JobStep \/ SweepStep \/ Tick

SweepSpec == SweepInit /\ [][SweepNext]_vars

\* The sweep alone.
StoreNext == SweepStep \/ Tick

StoreSpec == StoreInit /\ [][StoreNext]_vars

VerifyNext == VerifyCall

VerifySpec == VerifyInit /\ [][VerifyNext]_vars

LocatorNext == Locate

LocatorSpec == LocatorInit /\ [][LocatorNext]_vars

\* The job under the time limits of the worker.  The worker looks at its
\* clock from time to time, so the task may still take steps between the
\* moment a limit is reached and the moment the worker acts on it.
LimitNext == JobStep \/ Elapse \/ SoftTimeLimit \/ HardTimeLimit

LimitSpec == LimitInit /\ [][LimitNext]_vars

\* The purge alone.
PurgeNext == Purge \/ delete_track_files

PurgeSpec == PurgeInit /\ [][PurgeNext]_vars

\* The verify requests for one user and one issued code.
AuthNext == VerifyRead \/ VerifyEmail \/ CacheExpires

AuthSpec == AuthInit /\ [][AuthNext]_vars

(***************************************************************************)
(* The claims.                                                             *)
(***************************************************************************)
\* Where the task stands when an attempt has ended in the failed outcome:
\* in the handler, queued again by the retry, or failed for good.
HandlerPositions ==
    {"failing", "quarantine_copy", "quarantine_log", "marking", "retrying"}

InFailedOutcome ==
    \/ job.pc \in HandlerPositions
    \/ job.pc = "queued" /\ job.executions > 0
    \/ job.pc = "done" /\ job.outcome = "failure"

\* An encoder call of the current attempt returned failure.
EncodeFailedInAttempt == \E i \in DOMAIN job.results : ~job.results[i]

\* C1: in an attempt in which an encoder call returned failure,
\* create_master_playlist is not invoked and the attempt ends in the failed
\* outcome; the master playlist is written only after every configured
\* quality has been attempted and has returned success.
C1_NoManifestAfterEncodeFailure ==
    /\ EncodeFailedInAttempt => ~job.composed /\ InFailedOutcome
    /\ job.composed =>
          /\ Len(job.results) = Len(qualities)
          /\ \A i \in DOMAIN job.results : job.results[i]

\* The second quality of a table of three failed after the first succeeded.
C1_Witness ==
    /\ Len(qualities) = 3
    /\ job.results = <<TRUE, FALSE>>
    /\ job.pc = "retrying"
    /\ ~job.composed

\* The sub-playlists the master playlist references.
Referenced == {hls.entries[i].quality : i \in DOMAIN hls.entries}

Succeeded == job.pc = "done" /\ job.outcome = "success"

\* C2: when the job has succeeded, the master playlist references exactly
\* the sub-playlists of the configured qualities that exist in the output
\* directory.
C2_ManifestMatchesDisk ==
    Succeeded =>
        /\ hls.master
        /\ Referenced = {q \in Range(qualities) : hls.playlist[q]}
        /\ Referenced = {q \in QualityNames : hls.playlist[q]}

\* A job that succeeded although one of three encoder runs left no
\* sub-playlist: two are referenced.
C2_Witness ==
    /\ Succeeded
    /\ Len(qualities) = 3
    /\ Cardinality(Referenced) = 2

\* The attempt is over: line 126 is reached, or the task has returned.
AttemptEnded == job.pc \in {"retrying", "done"}

\* C3: when an attempt ends in failure, the row has status 'rejected' and
\* review notes carrying the failure reason; it is not left 'processing'.
C3_RejectedAfterFailure ==
    job.pc = "retrying" =>
        /\ track.status = "rejected"
        /\ track.review_notes = ReviewNotes(job.reason)

\* C4: when an attempt ends in failure, failed/{track_id} holds a failure
\* log with the attempt's reason and a copy of the raw input.
C4_QuarantinedAfterFailure ==
    job.pc = "retrying" =>
        /\ failed.dir /\ failed.log
        /\ failed.reason = job.reason
        /\ failed.rawCopy

SourceMissing == track.exists /\ ~RawFileFound

C6_BoundedRetries ==
    /\ [](job.executions <= 1 + max_retries /\ job.retries <= max_retries)
    /\ [][job'.retries # job.retries =>
             /\ job.pc = "retrying" /\ job'.pc = "queued"
             /\ job'.retries = job.retries + 1]_vars
    /\ [][job.pc = "retrying" /\ job'.pc # "queued" =>
             /\ job.retries = max_retries
             /\ job'.pc = "done" /\ job'.outcome = "failure"]_vars
    /\ [][job.pc = "done" => job' = job]_vars
    /\ <>(job.pc = "done")

\* The fourth execution failed: the job has failed for good.
C6_Witness ==
    /\ job.pc = "done" /\ job.outcome = "failure"
    /\ job.executions = 1 + max_retries
    /\ job.retries = max_retries

\* The phases in their order, and the rank of a status: 'approved' and
\* 'rejected' are the two final marks.
Positions ==
    <<"queued", "probing", "encoding", "composing", "copying", "saving",
      "verifying", "failing", "quarantine_copy", "quarantine_log", "marking",
      "retrying", "done">>

PhaseRank(pc) == CHOOSE i \in DOMAIN Positions : Positions[i] = pc

StatusRank(status) ==
    CASE status = "pending"    -> 0
      [] status = "processing" -> 1
      [] status = "approved"   -> 2
      [] status = "rejected"   -> 2

\* C7 as stated: neither the phase of the job nor the status of the row
\* ever moves backward, retries included.
C7_NeverBackward ==
    [][/\ PhaseRank(job'.pc) >= PhaseRank(job.pc)
       /\ StatusRank(track'.status) >= StatusRank(track.status)]_vars

\* C7 as amended: within one attempt the phase and the status only move
\* forward; the phase moves backward only when line 126 queues the task
\* again, and the status only when the next attempt starts and marks the
\* row 'processing'.
C7_ForwardWithinAttempt ==
    [][/\ PhaseRank(job'.pc) < PhaseRank(job.pc) =>
             job.pc = "retrying" /\ job'.pc = "queued"
       /\ StatusRank(track'.status) < StatusRank(track.status) =>
             /\ job.pc = "queued" /\ job.retries > 0
             /\ job'.executions = job.executions + 1
             /\ track'.status = "processing"]_vars

\* A retry has put a rejected row back to 'processing'.
C7_Witness ==
    /\ job.retries > 0
    /\ job.pc = "probing"
    /\ track.status = "processing"
    /\ track.review_notes # NoReason

\* C8: when the job has succeeded, every configured quality has its
\* sub-playlist and at least one segment in the output directory.
C8_SucceededHasAllRenditions ==
    Succeeded =>
        \A q \in Range(qualities) : hls.playlist[q] /\ hls.segments[q]

\* All three qualities are configured, their encoder calls returned success
\* and their renditions are in the output directory.
AllThreeEncoded ==
    /\ Range(qualities) = QualityNames
    /\ job.results = <<TRUE, TRUE, TRUE>>
    /\ \A q \in QualityNames : hls.playlist[q] /\ hls.segments[q]

ThreeEntriesDescending ==
    /\ [i \in DOMAIN hls.entries |-> hls.entries[i].quality] = <<"high", "med", "low">>
    /\ \A i, j \in DOMAIN hls.entries :
          i < j => hls.entries[i].bandwidth > hls.entries[j].bandwidth

\* C9 as stated: with the raw file present and all three encodes
\* successful, the attempt ends succeeded with the entries high, med, low.
C9_AllEncodedSucceeds ==
    AllThreeEncoded /\ AttemptEnded => Succeeded /\ ThreeEntriesDescending

\* C9 as amended: the same, provided the ffmpeg run of lines 67-72 that
\* transcodes the original copy succeeds as well.
C9_AllEncodedAndCopiedSucceeds ==
    AllThreeEncoded /\ AttemptEnded /\ job.reason \notin {CopyFailed, ToolNotStarted} =>
        Succeeded /\ ThreeEntriesDescending

\* The settings list low, med, high; the job succeeded.
C9_Witness ==
    /\ qualities = <<"low", "med", "high">>
    /\ AllThreeEncoded
    /\ Succeeded
    /\ Len(hls.entries) = 3

\* The reasons an attempt can fail with.
FailureKinds ==
    {RawNotFound.kind, EncodeFailed("high").kind, CopyFailed.kind,
     ToolNotStarted.kind, VerifyFailed(<< >>).kind}

\* C10: extract_audio_metadata answers a failed or unparsable probe with
\* the empty dict; no attempt fails because of the probe; a job that
\* succeeds after such a probe records the duration 0.
C10_ProbeFailureIsNotFatal ==
    /\ \A run \in FfprobeRuns :
          run.status # "exit0" \/ run.stdout = "garbage" =>
              extract_audio_metadata(run) = << >>
    /\ job.pc \in HandlerPositions => job.reason.kind \in FailureKinds
    /\ Succeeded /\ job.metadata = << >> =>
          track.status = "approved" /\ track.duration = <<0>>

\* The probe failed, the encodes and the verification passed.
C10_Witness ==
    /\ Succeeded
    /\ job.metadata = << >>
    /\ job.results = <<TRUE, TRUE, TRUE>>
    /\ track.duration = <<0>>

\* C11: whenever a quality directory exists and holds no segment file,
\* verify_hls_structure answers valid = False, with or without the
\* directory's sub-playlist.
C11_NoSegmentsIsInvalid ==
    verification.called
        /\ (\E q \in QualityNames : hls.quality_dirs[q] /\ ~hls.segments[q])
        => ~verification.result.valid

\* C12: a quality directory that exists without its sub-playlist makes the
\* verification fail, and no job with such a directory ends succeeded.
C12_MissingPlaylistIsInvalid ==
    /\ verification.called
           /\ (\E q \in QualityNames : hls.quality_dirs[q] /\ ~hls.playlist[q])
           => ~verification.result.valid
    /\ Succeeded =>
           \A q \in QualityNames : hls.quality_dirs[q] => hls.playlist[q]

\* C13: valid is False exactly when there are errors; a master playlist
\* that is missing or empty is an error; a missing metadata file adds a
\* warning and leaves valid as it is with the file.
C13_ValidIffNoErrors ==
    verification.called =>
        /\ ~verification.result.valid <=> verification.result.errors # << >>
        /\ ~hls.master \/ hls.master_lines = 0 => ~verification.result.valid
        /\ ~hls.metadata =>
              /\ "metadata.json not found" \in Range(verification.result.warnings)
              /\ verification.result.valid = verify_hls_structure(save_metadata(hls)).valid

\* C14: a sweep never deletes a quarantine directory whose failure log
\* carries a timestamp that is not older than the sweep's cutoff (its start
\* time less the retention window).
C14_NeverDeletesYoung ==
    [][/\ failed.dir /\ ~failed'.dir =>
             failed.log /\ failed.timestamp < sweep.cutoff
       /\ \A i \in OtherItems :
             store[i].kind = "dir" /\ store'[i].kind = "absent" =>
                 store[i].log = "ok" /\ store[i].timestamp < sweep.cutoff]_vars

\* Nothing in the quarantine store is expired for the cutoff.
NothingExpired(cutoff) ==
    \A item \in {track.id} \cup OtherItems : ~ItemExpired(item, cutoff)

\* C15: with no new failure in between, a sweep that runs with the cutoff
\* of the sweep before it deletes nothing and leaves the quarantine store
\* as it is; so does a sweep that finds nothing expired, and a sweep
\* without quarantine store returns at once.
C15_SecondSweepIsNoOp ==
    [][/\ sweep.pc # "idle" /\ sweep.cutoff = sweep.last =>
             /\ UNCHANGED <<failed, store>>
             /\ sweep'.pc # "deleting"
       /\ sweep.pc # "idle" /\ NothingExpired(sweep.cutoff) =>
             UNCHANGED <<failed, store>>
       /\ sweep.pc = "idle" /\ ~failed.root =>
             UNCHANGED <<failed, store>> /\ sweep'.pc = "idle"]_vars

\* The second of two sweeps with the same cutoff is under way on a store
\* that still holds two items, one of them of exactly the cutoff's day.
C15_Witness ==
    /\ sweep.pc = "checking"
    /\ sweep.cutoff = sweep.last
    /\ Len(sweep.todo) = 2
    /\ \E i \in OtherItems :
          store[i].log = "ok" /\ store[i].timestamp = sweep.cutoff

\* C16: a failure log that cannot be read or parsed does not end the
\* sweep: the run ends only when the listing is used up, and then no
\* expired entry is left, whatever the order of the listing.
C16_SweepItemIsolation ==
    [][sweep.pc # "idle" /\ sweep'.pc = "idle" =>
           /\ sweep.todo = << >>
           /\ NothingExpired(sweep.cutoff)]_vars

\* An expired entry is about to be deleted after a broken log was met
\* earlier in the same listing.
C16_Witness ==
    /\ sweep.pc = "deleting"
    /\ \E i \in OtherItems :
          /\ store[i].log \in BrokenLogs
          /\ i \notin Range(sweep.todo)

C18_OnlyRetryEscapes ==
    /\ \A run \in FfmpegRuns :
          run.status # "exit0" => process_quality_level(run) = FALSE
    /\ job.raised \in {NoReason, RetrySignal}

\* C18 as amended: process_quality_level answers every failure of the
\* encoder with False, so an attempt fails in the encode loop only with
\* the message of line 61; the task is left with the retry signal while
\* retries remain, and with the exception of the attempt itself when
\* request.retries has reached max_retries.
C18_RetryUntilExhausted ==
    /\ \A run \in FfmpegRuns :
          run.status # "exit0" => process_quality_level(run) = FALSE
    /\ job.reason \in {CopyFailed, ToolNotStarted} => job.composed
    /\ EncodeFailedInAttempt /\ job.reason # NoReason =>
          job.reason = EncodeFailed(qualities[Len(job.results)])
    /\ job.raised = RetrySignal => job.pc = "queued" /\ job.retries > 0
    /\ job.raised \notin {NoReason, RetrySignal} =>
          /\ job.pc = "done" /\ job.outcome = "failure"
          /\ job.retries = max_retries
          /\ job.raised = job.reason
    /\ job.pc = "done" /\ job.outcome = "failure" => job.raised = job.reason

\* The fourth execution failed in the encoder of 'low': the task is left
\* with that exception.
C18_Witness ==
    /\ job.pc = "done"
    /\ job.executions = 1 + max_retries
    /\ job.raised = EncodeFailed("low")

KeyedBy(track_id, path) ==
    /\ Len(path) >= 2
    /\ path[1] \in {"hls", "failed"}
    /\ path[2] = track_id

\* Every path a job of the track can write to.
JobPaths(track_id) ==
    Range(directories(track_id))
        \cup UNION {EncoderPaths(directories(track_id)[q], run) :
                        q \in QualityNames, run \in FfmpegRuns}
        \cup {get_hls_manifest_path(track_id), original_copy_path(track_id),
              get_hls_metadata_path(track_id), failed_dir(track_id),
              failed_file_path(track_id, UploadedName(track_id)),
              log_path(track_id)}

WriteSets == [track_id \in TrackIds |-> JobPaths(track_id)]

\* The write sets of two tracks have no path in common.
WriteSetsDisjoint ==
    \A a, b \in TrackIds : a # b => WriteSets[a] \cap WriteSets[b] = {}

VerificationFailed == job.reason.kind = VerifyFailed(<< >>).kind

\* C21: the row is marked approved, with hls_processed and hls_manifest
\* set, only after verify_hls_structure has returned valid in the same
\* attempt; a first attempt whose verification fails ends with the row
\* rejected, hls_processed False and hls_manifest empty, as before it.
C21_ApprovedOnlyAfterValid ==
    /\ track.status = "approved" \/ (job.executions = 1 /\ track.hls_processed) =>
          verification.called /\ verification.result.valid
    /\ VerificationFailed /\ job.pc = "retrying" /\ job.executions = 1 =>
          /\ track.status = "rejected"
          /\ ~track.hls_processed
          /\ track.hls_manifest = ""

\* C22: an attempt that composes a master playlist without any entry ends
\* in the failed outcome: no job ends succeeded with a master playlist
\* that references no sub-playlist.
C22_NoEmptyManifestSucceeds ==
    job.composed /\ hls.entries = << >> /\ AttemptEnded =>
        ~Succeeded /\ InFailedOutcome

\* Line 126 queues the task again.
RetryScheduled == job.pc = "retrying" /\ job'.pc = "queued"

\* C23 as stated: the delay before a retry is a constant multiple, greater
\* than one, of the delay before the retry that preceded it; the constant
\* is the ratio of the first two delays.
C23_ExponentialBackoff ==
    [][RetryScheduled /\ job.retries > 0 =>
           /\ job'.countdown > job.countdown
           /\ job'.countdown * Countdown(0) = job.countdown * Countdown(1)]_vars

\* C23 as amended: the delay before retry k is 60 * k seconds, so every
\* delay is the one before it plus 60 seconds: 60, 120, 180.
C23_LinearBackoff ==
    [][RetryScheduled =>
           /\ job'.countdown = 60 * job'.retries
           /\ job.retries > 0 => job'.countdown = job.countdown + 60]_vars

\* The third retry is scheduled, three minutes ahead.
C23_Witness ==
    /\ job.pc = "queued"
    /\ job.retries = max_retries
    /\ job.countdown = 180

\* C24: a job the worker kills at the hard limit has its row marked
\* rejected with a timeout reason; the soft limit comes before the hard
\* limit; no job that ran into a time limit ends with the row left in
\* 'processing'.
C24_TimeoutMarksRejected ==
    /\ task_soft_time_limit < task_time_limit
    /\ job.outcome = "killed" =>
          /\ track.status = "rejected"
          /\ track.review_notes \in {ReviewNotes(TimeLimitExceeded),
                                     ReviewNotes(SoftTimeLimitExceeded)}
    /\ job.pc = "done" /\ (job.outcome = "killed" \/ timer.soft) =>
          track.status # "processing"

\* The item's directory is no longer in the quarantine store.
Gone(item) ==
    IF item = track.id THEN ~failed.dir ELSE store[item].kind = "absent"

\* C25: in a run of the sweep during which no job quarantines a new
\* failure, every directory whose failure log could be read and was older
\* than the cutoff when the run started is deleted as soon as the loop has
\* passed it, and it stays deleted: at the end of the run no such
\* directory is left, and none is expired for the cutoff.
C25_SweepDeletesExpired ==
    sweep.pc # "idle" =>
        /\ \A item \in sweep.expired :
              item \notin Range(sweep.todo) => Gone(item)
        /\ sweep.todo = << >> => NothingExpired(sweep.cutoff)

\* The loop is over: two expired directories were deleted, an entry whose
\* timestamp is the cutoff itself was kept.
C25_Witness ==
    /\ sweep.pc = "checking"
    /\ sweep.todo = << >>
    /\ Cardinality(sweep.expired) = 2
    /\ \E i \in OtherItems :
          store[i].log = "ok" /\ store[i].timestamp = sweep.cutoff

\* C26: a call of cleanup_all_files leaves no output directory of the
\* track and no raw file the track refers to, raises nothing, and changes
\* nothing else; a call that finds the output directory or the raw file
\* absent leaves it absent and raises nothing either.
C26_PurgeIsRepeatable ==
    [][purge'.calls = purge.calls + 1 =>
           /\ hls' = NoOutput
           /\ track.audio_file => ~rawFile'
           /\ ~purge'.raised
           /\ ~hls.dirs => hls' = hls
           /\ ~rawFile => rawFile' = rawFile
           /\ [track' EXCEPT !.exists = track.exists] = track
           /\ UNCHANGED <<failed, store, job, writes>>]_vars

\* The first call removed the output directory and the raw file, the
\* second found neither and returned.
C26_Witness ==
    /\ purge.calls = 2
    /\ purge.removed = {"hls", "raw"}
    /\ purge.idle
    /\ ~purge.raised

\* C27: for an id without track the task returns its error result in the
\* first execution: no retry is scheduled, nothing is raised, no path is
\* written, no output directory and no quarantine record are made, and no
\* row is updated.
C27_MissingTrackReturnsError ==
    ~track.exists =>
        /\ job.pc \in {"queued", "done"}
        /\ job.executions <= 1 /\ job.retries = 0 /\ job.countdown = 0
        /\ job.pc = "done" => job.outcome = "error" /\ job.raised = NoReason
        /\ writes = {} /\ hls = NoOutput /\ failed = NoEntry(FALSE)
        /\ track.status = "pending" /\ track.review_notes = NoReason
        /\ track.hls_manifest = "" /\ ~track.hls_processed

\* The task has returned the error result.
C27_Witness ==
    /\ ~track.exists
    /\ job.pc = "done"
    /\ job.outcome = "error"
    /\ job.executions = 1

\* C28: however the sweep is interleaved with the handler of a failed
\* attempt of a track that has a file reference, the attempt ends with its
\* failure log in the quarantine directory and with the row marked
\* rejected with the reason of the attempt.
C28_SweepNeverLosesFailure ==
    track.audio_file /\ job.pc = "retrying" =>
        /\ failed.dir /\ failed.log
        /\ failed.reason = job.reason
        /\ track.status = "rejected"
        /\ track.review_notes = ReviewNotes(job.reason)

\* The handler has passed move_to_failed in the last attempt, and no
\* attempt has started since.
FailureRecorded ==
    \/ job.pc \in {"marking", "retrying"}
    \/ job.pc = "queued" /\ job.executions > 0
    \/ job.pc = "done" /\ job.outcome = "failure"

\* C29: after every failed attempt the quarantine directory of the track
\* holds its one failure log, and the reason and the timestamp in it are
\* those of the attempt that failed last.
C29_LogOfLastFailure ==
    FailureRecorded =>
        /\ failed.dir /\ failed.log
        /\ failed.reason = job.reason
        /\ failed.timestamp = now

\* The request that verifies the user in this step, if any.
Verifiers ==
    {r \in BagToSet(auth.requests) :
        /\ ~auth.is_verified /\ auth'.is_verified
        /\ auth'.requests = auth.requests (-) SetToBag({r})
        /\ r.code = r.cached_data.code}

\* C30: for one issued code and any interleaving of the verify requests,
\* at most five wrong codes are compared with the code; a request made
\* after the fifth failed attempt was recorded does not verify the user,
\* whatever code it carries; and the user becomes verified only by a
\* request whose code is the cached one and which found fewer than five
\* failed attempts recorded.
C30_BruteForceBound ==
    /\ [](auth.compared <= MaxAttempts)
    /\ [][~auth.is_verified /\ auth'.is_verified =>
             /\ Verifiers # {}
             /\ \A r \in Verifiers :
                   ~r.late /\ r.cached_data.attempts < MaxAttempts]_vars

=============================================================================
